---- MODULE Spec2Model ----
(***************************************************************************)
(* Model of the BTC DCA strategy lab (src/unnamed/part_000, the current    *)
(* script; src/scripts/app.js is an earlier copy with the same engine).    *)
(*                                                                         *)
(* Time.  A JavaScript Date is a count of milliseconds in UTC.  The model  *)
(* counts ticks of a third of a day (8 h), so one day, 86400000 ms, is     *)
(* TicksPerDay ticks, and tick 0 is 2017-12-30T00:00Z.  Dates parsed from  *)
(* "YYYY-MM-DD" text (the CSV, the date inputs) are UTC midnights, while   *)
(* getFullYear, getMonth and new Date(y, m, 1) work in the local time of   *)
(* the browser: tz is the local offset in ticks (local = UTC + tz).        *)
(* Daylight saving changes are not modelled.                               *)
(*                                                                         *)
(* Numbers.  Contribution amounts and prices are integers; units, values,  *)
(* returns and drawdowns are exact rationals <<n, d>> with d > 0, in       *)
(* lowest terms.  <<-1, 0>> is -Infinity, <<1, 0>> Infinity and <<0, 0>>   *)
(* NaN.  Rounding of IEEE doubles is not modelled.  cagr, volAnn and       *)
(* sharpe (Math.pow, Math.sqrt) are not rational and are left out of the   *)
(* metrics record; the size of the return sample is kept instead.          *)
(***************************************************************************)
EXTENDS Integers, Sequences, FiniteSets

\* ------------------------------------------------------------------ bounds
\* Longest price series.
MaxLen == 3
\* Prices are 1..MaxPrice.
MaxPrice == 2
\* Contribution amounts are -1..MaxAmount.
MaxAmount == 1
\* Moving-average windows are 1..MaxMa.
MaxMa == 3
\* One day (86400000 ms) in ticks.
TicksPerDay == 3

\* Days (UTC, counted from 2017-12-30) on which a price may exist and which
\* the date inputs may name: 2017-12-30, 12-31, 2018-01-01, 2018-02-01.
Days == {0, 1, 2, 33}
\* Local time offsets in ticks: UTC-8, UTC, UTC+8.
Zones == {-1, 0, 1}
\* Dip thresholds, as the percent typed in the input.
DipPercents == {20, 50}
MaWindows == 1..MaxMa
Amounts == {-1, 0, MaxAmount}
\* Two price levels, the lower 1 and the higher MaxPrice.
Prices == {1, MaxPrice}
Frequencies == {"daily", "weekly", "monthly"}
Granularities == {"month", "quarter", "year"}

\* ------------------------------------------------------------- arithmetic
Abs(n) == IF n < 0 THEN -n ELSE n

Sign(n) == IF n < 0 THEN -1 ELSE IF n > 0 THEN 1 ELSE 0

RECURSIVE GCD(_, _)
GCD(a, b) == IF b = 0 THEN a ELSE GCD(b, a % b)

\* The rational n/d in lowest terms; n/0 is an infinity or NaN.
RNorm(n, d) ==
    IF d = 0 THEN <<Sign(n), 0>>
    ELSE LET s == IF d < 0 THEN -1 ELSE 1
             g == GCD(Abs(n), Abs(d))
         IN  <<(s * n) \div g, (s * d) \div g>>

R(n) == <<n, 1>>
NaN == <<0, 0>>
NegInf == <<-1, 0>>
IsNaN(a) == a = NaN
IsFinite(a) == a[2] # 0

RAdd(a, b) ==
    IF IsNaN(a) \/ IsNaN(b) THEN NaN
    ELSE IF ~IsFinite(a) THEN (IF ~IsFinite(b) /\ b # a THEN NaN ELSE a)
    ELSE IF ~IsFinite(b) THEN b
    ELSE RNorm(a[1] * b[2] + b[1] * a[2], a[2] * b[2])

RNeg(a) == <<-a[1], a[2]>>

RSub(a, b) == RAdd(a, RNeg(b))

RMul(a, b) ==
    IF IsNaN(a) \/ IsNaN(b) THEN NaN
    ELSE IF ~IsFinite(a) \/ ~IsFinite(b) THEN <<Sign(a[1]) * Sign(b[1]), 0>>
    ELSE RNorm(a[1] * b[1], a[2] * b[2])

RDiv(a, b) ==
    IF IsNaN(a) \/ IsNaN(b) THEN NaN
    ELSE IF ~IsFinite(a) THEN (IF ~IsFinite(b) THEN NaN
                               ELSE <<a[1] * (IF b[1] < 0 THEN -1 ELSE 1), 0>>)
    ELSE IF ~IsFinite(b) THEN R(0)
    ELSE RNorm(a[1] * b[2], a[2] * b[1])

\* a < b as JavaScript compares numbers: false when either is NaN.
RLt(a, b) ==
    IF IsNaN(a) \/ IsNaN(b) THEN FALSE
    ELSE IF ~IsFinite(a) THEN (a[1] < 0 /\ b # a)
    ELSE IF ~IsFinite(b) THEN b[1] > 0
    ELSE a[1] * b[2] < b[1] * a[2]

RLe(a, b) == ~IsNaN(a) /\ ~IsNaN(b) /\ (a = b \/ RLt(a, b))

\* Math.max and Math.min of two numbers.
RMax(a, b) == IF IsNaN(a) \/ IsNaN(b) THEN NaN ELSE IF RLt(a, b) THEN b ELSE a

RMin(a, b) == IF IsNaN(a) \/ IsNaN(b) THEN NaN ELSE IF RLt(b, a) THEN b ELSE a

\* `x || 0` on a number: 0 and NaN are falsy.
OrZero(a) == IF IsNaN(a) \/ a = R(0) THEN R(0) ELSE a

\* --------------------------------------------------------------- calendar
IsLeap(y) == (y % 4 = 0 /\ y % 100 # 0) \/ y % 400 = 0

\* Days of month m (0 = January) of year y.
DaysInMonth(y, m) ==
    IF m = 1 THEN (IF IsLeap(y) THEN 29 ELSE 28)
    ELSE IF m \in {3, 5, 8, 10} THEN 30 ELSE 31

\* new Date(y, m, 1) accepts m outside 0..11 and carries it into the year.
NormYear(y, m) == y + (m \div 12)

NormMonth(m) == m % 12

\* The day number of the first of month m of year y; 2018-01-01 is day 2.
RECURSIVE FirstOfMonth(_, _)
FirstOfMonth(y, m) ==
    IF y = 2018 /\ m = 0 THEN 2
    ELSE IF y > 2018 \/ (y = 2018 /\ m > 0)
         THEN LET py == IF m = 0 THEN y - 1 ELSE y
                  pm == IF m = 0 THEN 11 ELSE m - 1
              IN  FirstOfMonth(py, pm) + DaysInMonth(py, pm)
         ELSE LET ny == IF m = 11 THEN y + 1 ELSE y
                  nm == IF m = 11 THEN 0 ELSE m + 1
              IN  FirstOfMonth(ny, nm) - DaysInMonth(y, m)

\* The <<year, month>> that day number d falls in, searched from <<y, m>>.
RECURSIVE YearMonthFrom(_, _, _)
YearMonthFrom(d, y, m) ==
    IF d < FirstOfMonth(y, m)
    THEN YearMonthFrom(d, IF m = 0 THEN y - 1 ELSE y, IF m = 0 THEN 11 ELSE m - 1)
    ELSE IF d >= FirstOfMonth(y, m) + DaysInMonth(y, m)
         THEN YearMonthFrom(d, IF m = 11 THEN y + 1 ELSE y, IF m = 11 THEN 0 ELSE m + 1)
         ELSE <<y, m>>

\* The local calendar day of instant t.
LocalDay(t, zone) == (t + zone) \div TicksPerDay

\* date.getFullYear() and date.getMonth(): local time.
GetFullYear(t, zone) == YearMonthFrom(LocalDay(t, zone), 2018, 0)[1]

GetMonth(t, zone) == YearMonthFrom(LocalDay(t, zone), 2018, 0)[2]

\* new Date(y, m, 1): local midnight of the first of the month.
NewDateLocal(y, m, zone) ==
    FirstOfMonth(NormYear(y, m), NormMonth(m)) * TicksPerDay - zone

\* new Date("YYYY-MM-DD"): UTC midnight of day d.
ParseDate(d) == d * TicksPerDay

\* ----------------------------------------------------------- price series
\* data[i] of the code is At(data, i): positions count from 0.
At(data, i) == data[i + 1]

RECURSIVE SeriesOfLen(_)
SeriesOfLen(n) ==
    IF n = 0 THEN {<<>>}
    ELSE {Append(s, [t |-> ParseDate(d), p |-> p]) :
            s \in SeriesOfLen(n - 1), d \in Days, p \in Prices}

IsAscending(s) == \A i \in 1..(Len(s) - 1) : s[i].t < s[i + 1].t

\* The series loadCSV can deliver: ascending by date, one point a day.
AllSeries == UNION {{s \in SeriesOfLen(n) : IsAscending(s)} : n \in 0..MaxLen}

\* data.findIndex(d => d.t >= start), -1 when there is none.
RECURSIVE FindIndexFrom(_, _, _)
FindIndexFrom(data, start, i) ==
    IF i >= Len(data) THEN -1
    ELSE IF At(data, i).t >= start THEN i
    ELSE FindIndexFrom(data, start, i + 1)

FindIndex(data, start) == FindIndexFrom(data, start, 0)

\* clampRange
ClampRange(data, start, end) ==
    SelectSeq(data, LAMBDA d : d.t >= start /\ d.t <= end)

\* sma(arr, window): the running sum from position i on.
RECURSIVE SmaFrom(_, _, _, _, _)
SmaFrom(arr, window, i, sum, out) ==
    IF i >= Len(arr) THEN out
    ELSE LET s1 == sum + At(arr, i)
             s2 == IF i >= window THEN s1 - At(arr, i - window) ELSE s1
         IN  SmaFrom(arr, window, i + 1, s2,
                     Append(out, IF i >= window - 1 THEN RDiv(R(s2), R(window))
                                 ELSE NaN))

Sma(arr, window) == SmaFrom(arr, window, 0, 0, <<>>)

\* --------------------------------------------------------------- schedule
StepDays(frequency) ==
    IF frequency = "daily" THEN 1 ELSE IF frequency = "weekly" THEN 7 ELSE 30

\* The inner scan: while (j < data.length && data[j].t < cursor) j++.
RECURSIVE ScanFrom(_, _, _)
ScanFrom(data, cursor, j) ==
    IF j < Len(data) /\ At(data, j).t < cursor THEN ScanFrom(data, cursor, j + 1)
    ELSE j

\* The cursor loop of buildScheduleIdx.
RECURSIVE ScheduleLoop(_, _, _, _, _, _)
ScheduleLoop(data, iStart, cursor, endDate, step, idx) ==
    IF cursor <= endDate
    THEN LET j == ScanFrom(data, cursor, iStart)
         IN  ScheduleLoop(data, iStart, cursor + step, endDate, step,
                          IF j < Len(data) /\ At(data, j).t <= endDate
                          THEN Append(idx, j) ELSE idx)
    ELSE idx

\* buildScheduleIdx with the schedule running to the last series date, the
\* end of the window forgotten.
BuildScheduleIdxToLastDate(data, start, end, frequency) ==
    LET iStart == FindIndex(data, start)
    IN  IF iStart < 0 THEN <<>>
        ELSE ScheduleLoop(data, iStart, At(data, iStart).t, At(data, Len(data) - 1).t,
                          StepDays(frequency) * TicksPerDay, <<>>)

\* buildScheduleIdx with the cursor started at start, not at the date of the
\* first position of the window.
BuildScheduleIdxFromStart(data, start, end, frequency) ==
    LET iStart == FindIndex(data, start)
    IN  IF iStart < 0 THEN <<>>
        ELSE LET lastDate == At(data, Len(data) - 1).t
                 endDate == IF end <= lastDate THEN end ELSE lastDate
             IN  ScheduleLoop(data, iStart, start, endDate,
                              StepDays(frequency) * TicksPerDay, <<>>)

BuildScheduleIdx(data, start, end, frequency) ==
    LET iStart == FindIndex(data, start)
    IN  IF iStart < 0 THEN <<>>
        ELSE LET lastDate == At(data, Len(data) - 1).t
                 endDate == IF end <= lastDate THEN end ELSE lastDate
             IN  ScheduleLoop(data, iStart, At(data, iStart).t, endDate,
                              StepDays(frequency) * TicksPerDay, <<>>)

\* ------------------------------------------------------------- simulators
SeqToSet(s) == {s[k] : k \in 1..Len(s)}

\* The end value read as the worth of the units alone, the cash still
\* waiting left out.
EndValueOfUnits(timeline) ==
    IF timeline = <<>> THEN R(0)
    ELSE OrZero(RMul(timeline[Len(timeline)].units, R(timeline[Len(timeline)].p)))

\* timeline.at(-1)?.value || 0
EndValue(timeline) ==
    IF timeline = <<>> THEN R(0) ELSE OrZero(timeline[Len(timeline)].value)

\* The loop of simulateDCA from position i on.
RECURSIVE DCALoop(_, _, _, _, _, _, _, _, _)
DCALoop(data, start, end, amount, schedule, i, cashIn, units, acc) ==
    IF i >= Len(data)
    THEN [timeline |-> acc.timeline,
          result |-> [cashIn |-> cashIn, units |-> units,
                      endValue |-> EndValue(acc.timeline)]]
    ELSE LET t == At(data, i).t
             p == At(data, i).p
         IN  IF t < start \/ t > end
             THEN DCALoop(data, start, end, amount, schedule, i + 1, cashIn, units, acc)
             ELSE LET buy == acc.sPtr < Len(schedule) /\ i = At(schedule, acc.sPtr)
                      cashIn1 == IF buy THEN cashIn + amount ELSE cashIn
                      units1 == IF buy THEN RAdd(units, RDiv(R(amount), R(p)))
                                ELSE units
                      sPtr1 == IF buy THEN acc.sPtr + 1 ELSE acc.sPtr
                      entry == [t |-> t, p |-> p, cashIn |-> cashIn1, units |-> units1,
                                value |-> RMul(units1, R(p))]
                 IN  DCALoop(data, start, end, amount, schedule, i + 1, cashIn1, units1,
                             [sPtr |-> sPtr1, timeline |-> Append(acc.timeline, entry)])

SimulateDCA(data, start, end, amount, frequency) ==
    DCALoop(data, start, end, amount, BuildScheduleIdx(data, start, end, frequency),
            0, 0, R(0), [sPtr |-> 0, timeline |-> <<>>])

\* The loop of simulateLumpSum without the test data[i].t <= end.
RECURSIVE LumpSumLoopToLast(_, _, _, _, _, _)
LumpSumLoopToLast(data, end, total, units, i, timeline) ==
    IF i < Len(data)
    THEN LumpSumLoopToLast(data, end, total, units, i + 1,
                           Append(timeline,
                                  [t |-> At(data, i).t, p |-> At(data, i).p,
                                   cashIn |-> total, units |-> units,
                                   value |-> RMul(units, R(At(data, i).p))]))
    ELSE timeline

\* The loop of simulateLumpSum: for (i = iStart; i < data.length && data[i].t <= end; i++).
RECURSIVE LumpSumLoop(_, _, _, _, _, _)
LumpSumLoop(data, end, total, units, i, timeline) ==
    IF i < Len(data) /\ At(data, i).t <= end
    THEN LumpSumLoop(data, end, total, units, i + 1,
                     Append(timeline,
                            [t |-> At(data, i).t, p |-> At(data, i).p, cashIn |-> total,
                             units |-> units, value |-> RMul(units, R(At(data, i).p))]))
    ELSE timeline

\* The capital simulateLumpSum invests: periods * amount.
LumpSumTotal(data, start, end, amount, frequency) ==
    Len(BuildScheduleIdx(data, start, end, frequency)) * amount

SimulateLumpSum(data, start, end, amount, frequency) ==
    LET total == LumpSumTotal(data, start, end, amount, frequency)
        iStart == FindIndex(data, start)
    IN  IF iStart < 0
        THEN [timeline |-> <<>>,
              result |-> [cashIn |-> 0, units |-> R(0), endValue |-> R(0)]]
        ELSE LET units == RDiv(R(total), R(At(data, iStart).p))
                 timeline == LumpSumLoop(data, end, total, units, iStart, <<>>)
             IN  [timeline |-> timeline,
                  result |-> [cashIn |-> total, units |-> units,
                              endValue |-> EndValue(timeline)]]

\* The cash a scheduled day adds in simulateDipBuy and simulateTrendDCA.
Contribution(scheduleSet, i, amount) == IF i \in scheduleSet THEN amount ELSE 0

\* The purchase test of simulateDipBuy with > for >=.
DipTriggerStrict(peak, p, dipPct, cashPile) ==
    LET drawdown == RDiv(RSub(peak, R(p)), peak)
    IN  IsFinite(drawdown) /\ RLt(dipPct, drawdown) /\ cashPile > 0

\* The purchase test of simulateDipBuy.
DipTrigger(peak, p, dipPct, cashPile) ==
    LET drawdown == RDiv(RSub(peak, R(p)), peak)
    IN  IsFinite(drawdown) /\ RLe(dipPct, drawdown) /\ cashPile > 0

\* The loop of simulateDipBuy from position i on.
RECURSIVE DipLoop(_, _, _, _, _, _, _, _, _)
DipLoop(data, start, end, amount, scheduleSet, dipPct, i, st, timeline) ==
    IF i >= Len(data)
    THEN [timeline |-> timeline,
          result |-> [cashIn |-> st.cashIn, units |-> st.units,
                      endValue |-> EndValue(timeline)]]
    ELSE LET t == At(data, i).t
             p == At(data, i).p
         IN  IF t < start \/ t > end
             THEN DipLoop(data, start, end, amount, scheduleSet, dipPct, i + 1, st, timeline)
             ELSE LET add == Contribution(scheduleSet, i, amount)
                      cashIn1 == st.cashIn + add
                      pile1 == st.cashPile + add
                      peak1 == RMax(st.peak, R(p))
                      buy == DipTrigger(peak1, p, dipPct, pile1)
                      units1 == IF buy THEN RAdd(st.units, RDiv(R(pile1), R(p)))
                                ELSE st.units
                      pile2 == IF buy THEN 0 ELSE pile1
                      entry == [t |-> t, p |-> p, cashIn |-> cashIn1, units |-> units1,
                                value |-> RAdd(RMul(units1, R(p)), R(pile2)),
                                cashPile |-> pile2]
                 IN  DipLoop(data, start, end, amount, scheduleSet, dipPct, i + 1,
                             [cashIn |-> cashIn1, units |-> units1, cashPile |-> pile2,
                              peak |-> peak1],
                             Append(timeline, entry))

SimulateDipBuy(data, start, end, amount, frequency, dipPct) ==
    DipLoop(data, start, end, amount,
            SeqToSet(BuildScheduleIdx(data, start, end, frequency)), dipPct, 0,
            [cashIn |-> 0, units |-> R(0), cashPile |-> 0, peak |-> NegInf], <<>>)

\* The purchase test of simulateTrendDCA with the unfilled average read as 0
\* (`ma[i] || 0`) and the position test left out.
TrendTriggerUnfilled(i, p, mai, maN, cashPile) ==
    RLt(OrZero(mai), R(p)) /\ cashPile > 0

\* The purchase test of simulateTrendDCA with >= for >.
TrendTriggerAtOrAbove(i, p, mai, maN, cashPile) ==
    i >= maN - 1 /\ RLe(mai, R(p)) /\ cashPile > 0

\* The purchase test of simulateTrendDCA.
TrendTrigger(i, p, mai, maN, cashPile) ==
    i >= maN - 1 /\ RLt(mai, R(p)) /\ cashPile > 0

\* The loop of simulateTrendDCA from position i on.
RECURSIVE TrendLoop(_, _, _, _, _, _, _, _, _, _)
TrendLoop(data, start, end, amount, scheduleSet, ma, maN, i, st, timeline) ==
    IF i >= Len(data)
    THEN [timeline |-> timeline,
          result |-> [cashIn |-> st.cashIn, units |-> st.units,
                      endValue |-> EndValue(timeline)]]
    ELSE LET t == At(data, i).t
             p == At(data, i).p
         IN  IF t < start \/ t > end
             THEN TrendLoop(data, start, end, amount, scheduleSet, ma, maN, i + 1, st,
                            timeline)
             ELSE LET add == Contribution(scheduleSet, i, amount)
                      cashIn1 == st.cashIn + add
                      pile1 == st.cashPile + add
                      buy == TrendTrigger(i, p, At(ma, i), maN, pile1)
                      units1 == IF buy THEN RAdd(st.units, RDiv(R(pile1), R(p)))
                                ELSE st.units
                      pile2 == IF buy THEN 0 ELSE pile1
                      entry == [t |-> t, p |-> p, cashIn |-> cashIn1, units |-> units1,
                                value |-> RAdd(RMul(units1, R(p)), R(pile2)),
                                cashPile |-> pile2, ma |-> At(ma, i)]
                 IN  TrendLoop(data, start, end, amount, scheduleSet, ma, maN, i + 1,
                               [cashIn |-> cashIn1, units |-> units1, cashPile |-> pile2],
                               Append(timeline, entry))

SimulateTrendDCA(data, start, end, amount, frequency, maN) ==
    TrendLoop(data, start, end, amount,
              SeqToSet(BuildScheduleIdx(data, start, end, frequency)),
              Sma([k \in 1..Len(data) |-> data[k].p], maN), maN, 0,
              [cashIn |-> 0, units |-> R(0), cashPile |-> 0], <<>>)

\* ---------------------------------------------------------------- metrics
\* The return of one pair with no number for a pair whose earlier value is
\* not positive, so that isFinite leaves the pair out of the sample.
DailyReturnOrNaN(prev, cur) ==
    IF RLt(R(0), prev) THEN RSub(RDiv(cur, prev), R(1)) ELSE NaN

\* const r = prev > 0 ? (cur / prev - 1) : 0
DailyReturn(prev, cur) ==
    IF RLt(R(0), prev) THEN RSub(RDiv(cur, prev), R(1)) ELSE R(0)

\* The daily-return sample of metricsFromTimeline, from pair i on.
RECURSIVE RetsFrom(_, _, _)
RetsFrom(tl, i, rets) ==
    IF i >= Len(tl) THEN rets
    ELSE LET r == DailyReturn(At(tl, i - 1).value, At(tl, i).value)
         IN  RetsFrom(tl, i + 1, IF IsFinite(r) THEN Append(rets, r) ELSE rets)

\* The maximum-drawdown loop of metricsFromTimeline, from entry i on.
RECURSIVE MddFrom(_, _, _, _)
MddFrom(tl, i, peak, mdd) ==
    IF i >= Len(tl) THEN mdd
    ELSE LET v == At(tl, i).value
             peak1 == RMax(peak, v)
         IN  MddFrom(tl, i + 1, peak1,
                     IF RLt(R(0), peak1)
                     THEN RMin(mdd, RSub(RDiv(v, peak1), R(1))) ELSE mdd)

\* metricsFromTimeline; {} is the record with no fields.
MetricsFromTimeline(tl) ==
    IF tl = <<>> THEN <<>>
    ELSE LET cashIn == R(tl[Len(tl)].cashIn)
             endValue == OrZero(tl[Len(tl)].value)
         IN  [cashIn |-> OrZero(cashIn),
              endValue |-> endValue,
              pnl |-> RSub(endValue, OrZero(cashIn)),
              rtn |-> IF RLt(R(0), cashIn) THEN RSub(RDiv(endValue, cashIn), R(1))
                      ELSE R(0),
              rets |-> RetsFrom(tl, 1, <<>>),
              nRets |-> Len(RetsFrom(tl, 1, <<>>)),
              mdd |-> MddFrom(tl, 0, NegInf, R(0))]

\* A point of drawdownSeries with the quotient upside down.
DrawdownPointInverted(peak, value) ==
    IF RLt(R(0), peak) THEN RSub(RDiv(peak, value), R(1)) ELSE R(0)

\* The value of one point of drawdownSeries.
DrawdownPoint(peak, value) ==
    IF RLt(R(0), peak) THEN RSub(RDiv(value, peak), R(1)) ELSE R(0)

\* drawdownSeries from entry i on.
RECURSIVE DrawdownFrom(_, _, _, _)
DrawdownFrom(tl, i, peak, out) ==
    IF i >= Len(tl) THEN out
    ELSE LET peak1 == RMax(peak, At(tl, i).value)
         IN  DrawdownFrom(tl, i + 1, peak1,
                          Append(out, [t |-> At(tl, i).t,
                                       dd |-> DrawdownPoint(peak1, At(tl, i).value)]))

DrawdownSeries(tl) == DrawdownFrom(tl, 0, NegInf, <<>>)

\* ----------------------------------------------------------------- stages
\* quarterOf(date)
QuarterOf(t, zone) == (GetMonth(t, zone) \div 3) + 1

\* startOfQuarter(date)
StartOfQuarter(t, zone) ==
    NewDateLocal(GetFullYear(t, zone), (GetMonth(t, zone) \div 3) * 3, zone)

\* The start of the next stage with the month left as it is in the monthly
\* branch: new Date(cur.getFullYear(), cur.getMonth(), 1).
NextStageStartSameMonth(cur, granularity, zone) ==
    IF granularity = "year" THEN NewDateLocal(GetFullYear(cur, zone) + 1, 0, zone)
    ELSE IF granularity = "quarter"
         THEN LET qStart == StartOfQuarter(cur, zone)
              IN  NewDateLocal(GetFullYear(qStart, zone), GetMonth(qStart, zone) + 3, zone)
         ELSE NewDateLocal(GetFullYear(cur, zone), GetMonth(cur, zone), zone)

\* The start of the stage after the one cur is in.
NextStageStart(cur, granularity, zone) ==
    IF granularity = "year" THEN NewDateLocal(GetFullYear(cur, zone) + 1, 0, zone)
    ELSE IF granularity = "quarter"
         THEN LET qStart == StartOfQuarter(cur, zone)
              IN  NewDateLocal(GetFullYear(qStart, zone), GetMonth(qStart, zone) + 3, zone)
         ELSE NewDateLocal(GetFullYear(cur, zone), GetMonth(cur, zone) + 1, zone)

\* The label of a stage: "YYYY", "YYYY-Qn" or "YYYY-MM", kept as its numbers.
StageLabel(stageStart, granularity, zone) ==
    IF granularity = "year"
    THEN [kind |-> "year", y |-> GetFullYear(stageStart, zone), n |-> 0]
    ELSE IF granularity = "quarter"
         THEN [kind |-> "quarter", y |-> GetFullYear(stageStart, zone),
               n |-> QuarterOf(stageStart, zone)]
         ELSE [kind |-> "month", y |-> GetFullYear(stageStart, zone),
               n |-> GetMonth(stageStart, zone) + 1]

\* The end of the stage that starts at cur: Math.min(end, next - 86400000).
StageEnd(end, next) == IF end <= next - TicksPerDay THEN end ELSE next - TicksPerDay

\* The loop of buildStages from cur on.
RECURSIVE StagesFrom(_, _, _, _, _)
StagesFrom(cur, end, granularity, zone, stages) ==
    IF cur <= end
    THEN LET next == NextStageStart(cur, granularity, zone)
         IN  StagesFrom(next, end, granularity, zone,
                        Append(stages, [start |-> cur, end |-> StageEnd(end, next),
                                        label |-> StageLabel(cur, granularity, zone)]))
    ELSE stages

BuildStages(start, end, granularity, zone) ==
    StagesFrom(start, end, granularity, zone, <<>>)

\* metricsFromTimeline(...).rtn || 0
RtnOrZero(m) == IF "rtn" \in DOMAIN m THEN OrZero(m.rtn) ELSE R(0)

\* The window of stage s opened at the start of the whole range, so that
\* what earlier stages bought is carried into it.
StageWindowCarried(start, s) == [start |-> start, end |-> s.end]

\* The window computeStageReturns gives the simulators for stage s.
StageWindow(start, s) == [start |-> s.start, end |-> s.end]

\* The loop of computeStageReturns over the stages from k on.
RECURSIVE StageReturnsFrom(_, _, _, _, _, _, _, _, _)
StageReturnsFrom(data, start, stages, k, amount, frequency, dipPct, maDays, acc) ==
    IF k > Len(stages) THEN acc
    ELSE LET w == StageWindow(start, stages[k])
             rDCA == RtnOrZero(MetricsFromTimeline(
                        SimulateDCA(data, w.start, w.end, amount, frequency).timeline))
             rLS == RtnOrZero(MetricsFromTimeline(
                        SimulateLumpSum(data, w.start, w.end, amount, frequency).timeline))
             rDip == RtnOrZero(MetricsFromTimeline(
                        SimulateDipBuy(data, w.start, w.end, amount, frequency,
                                       dipPct).timeline))
             rTrend == RtnOrZero(MetricsFromTimeline(
                        SimulateTrendDCA(data, w.start, w.end, amount, frequency,
                                         maDays).timeline))
         IN  StageReturnsFrom(data, start, stages, k + 1, amount, frequency, dipPct,
                              maDays,
                              [labels |-> Append(acc.labels, stages[k].label),
                               dca |-> Append(acc.dca, rDCA),
                               ls |-> Append(acc.ls, rLS),
                               dip |-> Append(acc.dip, rDip),
                               trend |-> Append(acc.trend, rTrend)])

\* computeStageReturns; data is state.raw.
ComputeStageReturns(data, start, end, amount, frequency, dipPct, maDays, granularity, zone) ==
    StageReturnsFrom(data, start, BuildStages(start, end, granularity, zone), 1, amount,
                     frequency, dipPct, maDays,
                     [labels |-> <<>>, dca |-> <<>>, ls |-> <<>>, dip |-> <<>>,
                      trend |-> <<>>])

\* The dip threshold refresh passes on: percent / 100.
DipPctOf(percent) == RNorm(percent, 100)

\* The four strategies, by the names refresh gives their results.
Strategies == {"dca", "ls", "dip", "trend"}

\* The four simulators on one set of arguments, with the metrics and the
\* drawdown curve of each timeline, as refresh and updateCharts compute them.
RunAll(data, start, end, amount, frequency, dipPct, maN) ==
    LET dca == SimulateDCA(data, start, end, amount, frequency)
        ls == SimulateLumpSum(data, start, end, amount, frequency)
        dip == SimulateDipBuy(data, start, end, amount, frequency, dipPct)
        trend == SimulateTrendDCA(data, start, end, amount, frequency, maN)
        sims == [dca |-> dca, ls |-> ls, dip |-> dip, trend |-> trend]
    IN  [sims |-> sims,
         metrics |-> [k \in Strategies |-> MetricsFromTimeline(sims[k].timeline)],
         dd |-> [k \in Strategies |-> DrawdownSeries(sims[k].timeline)]]

\* ---------------------------------------------------------------- refresh
\* The value of an input element is <<>> when it is empty and <<n>> when it
\* holds the date or number n (a date as its day number).
DefaultDipPercent == 20
DefaultMaDays == 200

\* Number(value || dflt)
NumberOr(value, dflt) == IF value = <<>> THEN dflt ELSE value[1]

\* refresh with start and end left as they were typed.
OrderRangeAsTyped(start, end) == [start |-> start, end |-> end]

\* if (start > end) { const tmp = start; start = end; end = tmp; }
OrderRange(start, end) ==
    IF start > end THEN [start |-> end, end |-> start] ELSE [start |-> start, end |-> end]

\* The start and end refresh works with: the dates typed, the first and last
\* series dates for an empty input, put in order.
RefreshRange(data, page, now) ==
    LET start == IF page.startDate # <<>> THEN ParseDate(page.startDate[1])
                 ELSE IF data # <<>> THEN At(data, 0).t
                 ELSE ParseDate(FirstOfMonth(2017, 0))
        end == IF page.endDate # <<>> THEN ParseDate(page.endDate[1])
               ELSE IF data # <<>> THEN At(data, Len(data) - 1).t
               ELSE now
    IN  OrderRange(start, end)

\* refresh: everything it computes and hands to renderMetrics, updateCharts
\* and updateStageChart.
Refresh(data, zone, page, now) ==
    LET range == RefreshRange(data, page, now)
        frequency == page.frequency
        amount == NumberOr(page.amount, 0)
        dipPct == DipPctOf(NumberOr(page.dipPct, DefaultDipPercent))
        maDays == NumberOr(page.maDays, DefaultMaDays)
        granularity == IF page.stageGranularity = "" THEN "year"
                       ELSE page.stageGranularity
        run == RunAll(data, range.start, range.end, amount, frequency, dipPct, maDays)
    IN  [kind |-> "refresh",
         start |-> range.start,
         end |-> range.end,
         priceTl |-> ClampRange(data, range.start, range.end),
         sims |-> run.sims,
         metrics |-> run.metrics,
         dd |-> run.dd,
         trendLabel |-> maDays,
         stageData |-> ComputeStageReturns(data, range.start, range.end, amount,
                                           frequency, dipPct, maDays, granularity, zone)]

\* The amount a preset button types into the amount input.
PresetAmount(preset) ==
    IF preset = "100w" THEN <<100>> ELSE IF preset = "50w" THEN <<50>> ELSE <<500>>

\* ------------------------------------------------------------------ state
VARIABLES
    raw,    \* state.raw: the loaded price series
    tz,     \* the local time offset of the browser, in ticks
    ui,     \* the values of the input elements of the page
    out,    \* what the last refresh computed and handed to the charts
    args,   \* the arguments of a direct call of the engine
    pc,     \* where the program is
    ret     \* what a direct call returned

vars == <<raw, tz, ui, out, args, pc, ret>>

None == [kind |-> "none"]

\* ------------------------------------------------- the engine, called directly
SimArgs ==
    [kind : {"simulate"}, data : AllSeries,
     start : {ParseDate(d) : d \in Days}, end : {ParseDate(d) : d \in Days},
     amount : Amounts, frequency : Frequencies,
     dipPct : {DipPctOf(n) : n \in DipPercents}, maN : MaWindows]

SimInit ==
    /\ raw = <<>>
    /\ tz = 0
    /\ ui = None
    /\ out = None
    /\ args \in SimArgs
    /\ pc = "call"
    /\ ret = None

\* buildScheduleIdx and the four simulators applied to args.
CallSimulators ==
    /\ pc = "call"
    /\ args.kind = "simulate"
    /\ ret' = [kind |-> "simulate",
               schedule |-> BuildScheduleIdx(args.data, args.start, args.end,
                                             args.frequency),
               run |-> RunAll(args.data, args.start, args.end, args.amount,
                              args.frequency, args.dipPct, args.maN)]
    /\ pc' = "returned"
    /\ UNCHANGED <<raw, tz, ui, out, args>>

SimNext == CallSimulators

SimSpec == SimInit /\ [][SimNext]_vars

StageArgs ==
    [kind : {"stages"}, start : {ParseDate(d) : d \in Days},
     end : {ParseDate(d) : d \in Days}, granularity : Granularities]

StageInit ==
    /\ raw = <<>>
    /\ tz \in Zones
    /\ ui = None
    /\ out = None
    /\ args \in StageArgs
    /\ pc = "call"
    /\ ret = None

\* buildStages applied to args, in a browser whose local time is tz.
CallBuildStages ==
    /\ pc = "call"
    /\ args.kind = "stages"
    /\ ret' = [kind |-> "stages",
               stages |-> BuildStages(args.start, args.end, args.granularity, tz)]
    /\ pc' = "returned"
    /\ UNCHANGED <<raw, tz, ui, out, args>>

StageNext == CallBuildStages

StageSpec == StageInit /\ [][StageNext]_vars

\* Series for simulateTrendDCA alone, with one more price level so that the
\* price can rise above its average twice.
TrendPrices == 1..(MaxPrice + 1)

RECURSIVE TrendSeriesOfLen(_)
TrendSeriesOfLen(n) ==
    IF n = 0 THEN {<<>>}
    ELSE {Append(s, [t |-> ParseDate(d), p |-> p]) :
            s \in TrendSeriesOfLen(n - 1), d \in Days, p \in TrendPrices}

TrendSeries == UNION {{s \in TrendSeriesOfLen(n) : IsAscending(s)} : n \in 0..MaxLen}

TrendArgs ==
    [kind : {"trend"}, data : TrendSeries,
     start : {ParseDate(d) : d \in Days}, end : {ParseDate(d) : d \in Days},
     amount : Amounts, frequency : Frequencies, maN : MaWindows]

TrendInit ==
    /\ raw = <<>>
    /\ tz = 0
    /\ ui = None
    /\ out = None
    /\ args \in TrendArgs
    /\ pc = "call"
    /\ ret = None

\* simulateTrendDCA applied to args.
CallTrendDCA ==
    /\ pc = "call"
    /\ args.kind = "trend"
    /\ ret' = [kind |-> "trend",
               schedule |-> BuildScheduleIdx(args.data, args.start, args.end,
                                             args.frequency),
               sim |-> SimulateTrendDCA(args.data, args.start, args.end, args.amount,
                                        args.frequency, args.maN)]
    /\ pc' = "returned"
    /\ UNCHANGED <<raw, tz, ui, out, args>>

TrendNext == CallTrendDCA

TrendSpec == TrendInit /\ [][TrendNext]_vars

\* ------------------------------------------- the two loops, step by step
\* buildScheduleIdx and buildStages run one iteration at a time; ret holds
\* the local variables of the function that is running.
ScheduleLoopArgs ==
    [kind : {"scheduleLoop"}, data : AllSeries,
     start : {ParseDate(d) : d \in Days}, end : {ParseDate(d) : d \in Days},
     frequency : Frequencies]

StageLoopArgs ==
    [kind : {"stageLoop"}, start : {ParseDate(d) : d \in Days},
     end : {ParseDate(d) : d \in Days}, granularity : Granularities]

LoopInit ==
    /\ raw = <<>>
    /\ args \in ScheduleLoopArgs \cup StageLoopArgs
    /\ tz \in (IF args.kind = "stageLoop" THEN Zones ELSE {0})
    /\ ui = None
    /\ out = None
    /\ pc = "enter"
    /\ ret = None

\* buildScheduleIdx up to its loop: return at once when no position is
\* dated at or after start, else set cursor, endDate and stepDays.
EnterBuildScheduleIdx ==
    /\ pc = "enter"
    /\ args.kind = "scheduleLoop"
    /\ LET iStart == FindIndex(args.data, args.start)
       IN  IF iStart < 0
           THEN /\ ret' = [kind |-> "scheduleLoop", idx |-> <<>>, iters |-> 0]
                /\ pc' = "done"
           ELSE LET lastDate == At(args.data, Len(args.data) - 1).t
                IN  /\ ret' = [kind |-> "scheduleLoop", idx |-> <<>>, iters |-> 0,
                               iStart |-> iStart,
                               cursor |-> At(args.data, iStart).t,
                               endDate |-> IF args.end <= lastDate THEN args.end
                                           ELSE lastDate,
                               step |-> StepDays(args.frequency) * TicksPerDay]
                    /\ pc' = "loop"
    /\ UNCHANGED <<raw, tz, ui, out, args>>

\* One pass of while (cursor <= endDate).
ScheduleIteration ==
    /\ pc = "loop"
    /\ ret.kind = "scheduleLoop"
    /\ ret.cursor <= ret.endDate
    /\ LET j == ScanFrom(args.data, ret.cursor, ret.iStart)
       IN  ret' = [ret EXCEPT
                     !.idx = IF j < Len(args.data) /\ At(args.data, j).t <= ret.endDate
                             THEN Append(@, j) ELSE @,
                     !.cursor = @ + ret.step,
                     !.iters = @ + 1]
    /\ UNCHANGED <<raw, tz, ui, out, args, pc>>

\* The loop test fails: return idx.
ScheduleReturn ==
    /\ pc = "loop"
    /\ ret.kind = "scheduleLoop"
    /\ ret.cursor > ret.endDate
    /\ pc' = "done"
    /\ UNCHANGED <<raw, tz, ui, out, args, ret>>

\* buildStages up to its loop.
EnterBuildStages ==
    /\ pc = "enter"
    /\ args.kind = "stageLoop"
    /\ ret' = [kind |-> "stageLoop", stages |-> <<>>, iters |-> 0, cursor |-> args.start]
    /\ pc' = "loop"
    /\ UNCHANGED <<raw, tz, ui, out, args>>

\* One pass of while (cur <= end); ret.cursor is cur.
StageIteration ==
    /\ pc = "loop"
    /\ ret.kind = "stageLoop"
    /\ ret.cursor <= args.end
    /\ LET next == NextStageStart(ret.cursor, args.granularity, tz)
       IN  ret' = [ret EXCEPT
                     !.stages = Append(@, [start |-> ret.cursor,
                                           end |-> StageEnd(args.end, next),
                                           label |-> StageLabel(ret.cursor,
                                                                args.granularity, tz)]),
                     !.cursor = next,
                     !.iters = @ + 1]
    /\ UNCHANGED <<raw, tz, ui, out, args, pc>>

\* The loop test fails: return stages.
StageReturn ==
    /\ pc = "loop"
    /\ ret.kind = "stageLoop"
    /\ ret.cursor > args.end
    /\ pc' = "done"
    /\ UNCHANGED <<raw, tz, ui, out, args, ret>>

LoopNext ==
    \/ EnterBuildScheduleIdx
    \/ ScheduleIteration
    \/ ScheduleReturn
    \/ EnterBuildStages
    \/ StageIteration
    \/ StageReturn

\* The code is synchronous: a function that has been called keeps running.
LoopSpec == LoopInit /\ [][LoopNext]_vars /\ WF_vars(LoopNext)

\* --------------------------------------------------------------- the page
\* A series of the given days and prices.
MkSeries(days, prices) ==
    [k \in 1..Len(days) |-> [t |-> ParseDate(days[k]), p |-> prices[k]]]

\* The price files the page is run on: three consecutive days that cross
\* the turn of the year, and three days with gaps between them.
LoadedSeries == {MkSeries(<<0, 1, 2>>, <<1, 2, 1>>), MkSeries(<<0, 2, 33>>, <<2, 1, 2>>)}

\* What the inputs of the page may hold when an event arrives.
TypedDates == {<<>>} \cup {<<d>> : d \in Days \ {1}}
TypedAmounts == {<<>>, <<MaxAmount>>}
TypedDipPercents == {<<>>, <<75>>}
TypedMaDays == {<<>>, <<MaxMa - 1>>}
\* The data-ma values of the moving-average buttons.
MaPresets == {0, MaxMa}
Presets == {"100w", "50w", "500w"}
\* new Date() when refresh runs: some instant after the last day of Days.
Clock == {ParseDate(34) + 1}

\* What the frequency select holds when an event arrives; "weekly" is what
\* the preset buttons choose.
TypedFrequencies == {"daily", "monthly"}

Pages ==
    [startDate : TypedDates, endDate : TypedDates, frequency : TypedFrequencies,
     amount : TypedAmounts, dipPct : TypedDipPercents, maDays : TypedMaDays,
     stageGranularity : Granularities]

\* The page with its data loaded (main), holding whatever was typed last,
\* as an event arrives.
Init ==
    /\ raw \in LoadedSeries
    /\ tz \in Zones
    /\ ui \in Pages
    /\ out = None
    /\ args = None
    /\ pc = "idle"
    /\ ret = None

\* A click on runBacktest, or the change event of one of the seven inputs:
\* both listeners are refresh.
RunBacktest ==
    /\ pc = "idle"
    /\ \E now \in Clock : out' = Refresh(raw, tz, ui, now)
    /\ pc' = "drawn"
    /\ UNCHANGED <<raw, tz, ui, args, ret>>

\* A click on a preset button: amount and frequency are typed, then refresh.
ClickPreset ==
    /\ pc = "idle"
    /\ \E preset \in Presets :
          /\ ui' = [ui EXCEPT !.amount = PresetAmount(preset), !.frequency = "weekly"]
          /\ \E now \in Clock : out' = Refresh(raw, tz, ui', now)
    /\ pc' = "drawn"
    /\ UNCHANGED <<raw, tz, args, ret>>

\* A click on a moving-average button: maDays is typed if the button names
\* a positive number of days, then refresh.
ClickMaPreset ==
    /\ pc = "idle"
    /\ \E days \in MaPresets :
          /\ ui' = IF days > 0 THEN [ui EXCEPT !.maDays = <<days>>] ELSE ui
          /\ \E now \in Clock : out' = Refresh(raw, tz, ui', now)
    /\ pc' = "drawn"
    /\ UNCHANGED <<raw, tz, args, ret>>

Next == RunBacktest \/ ClickPreset \/ ClickMaPreset

Spec == Init /\ [][Next]_vars

\* ------------------------------------------------------- reading a result
Returned == pc = "returned" /\ ret.kind = "simulate"

Timeline(k) == ret.run.sims[k].timeline

Result(k) == ret.run.sims[k].result

\* The position in data of the point dated t.
PosOf(data, t) == CHOOSE i \in 0..(Len(data) - 1) : At(data, i).t = t

\* The field f of the entry before entry k of timeline tl, or zero for the first.
Before(tl, k, zero, f) == IF k = 1 THEN zero ELSE tl[k - 1][f]

StrictlyIncreasing(idx) == \A k \in 1..(Len(idx) - 1) : idx[k] < idx[k + 1]

\* ------------------------------------------------------------------ C1
\* C1 (as claimed): the positions buildScheduleIdx returns are strictly
\* increasing, none appears twice, and each lies in [0, len(series)).
C1_ScheduleStrictlyIncreasing ==
    Returned =>
        /\ StrictlyIncreasing(ret.schedule)
        /\ \A k \in 1..Len(ret.schedule) :
              ret.schedule[k] >= 0 /\ ret.schedule[k] < Len(args.data)

\* ------------------------------------------------------------------ C2
\* C2 (as claimed): simulateLumpSum and simulateDCA end with the same cashIn,
\* amount times the length of the schedule of the window.
C2_CapitalParity ==
    Returned =>
        /\ Result("ls").cashIn = Result("dca").cashIn
        /\ Result("dca").cashIn = args.amount * Len(ret.schedule)

\* ------------------------------------------------------------------ C3
\* C3 (as claimed): in each of the four timelines units and cashIn never
\* fall from one entry to the next, for every amount the page accepts.
C3_UnitsAndCashNonDecreasing ==
    Returned =>
        \A s \in Strategies : \A k \in 1..(Len(Timeline(s)) - 1) :
            /\ RLe(Timeline(s)[k].units, Timeline(s)[k + 1].units)
            /\ Timeline(s)[k].cashIn <= Timeline(s)[k + 1].cashIn

\* ------------------------------------------------------------------ C4
\* Entry k of tl is at or above every value before it.
AtRunningPeak(tl, k) == \A j \in 1..k : RLe(tl[j].value, tl[k].value)

\* C4: every point of drawdownSeries has dd <= 0, the mdd of
\* metricsFromTimeline is <= 0, and mdd is 0 when the value column never
\* falls below its running peak.
C4_DrawdownBound ==
    Returned =>
        \A s \in Strategies :
            /\ Len(ret.run.dd[s]) = Len(Timeline(s))
            /\ \A k \in 1..Len(ret.run.dd[s]) : RLe(ret.run.dd[s][k].dd, R(0))
            /\ Timeline(s) # <<>> =>
                  /\ RLe(ret.run.metrics[s].mdd, R(0))
                  /\ (\A k \in 1..Len(Timeline(s)) : AtRunningPeak(Timeline(s), k))
                        => ret.run.metrics[s].mdd = R(0)

\* A DCA run whose value fell below an earlier peak: a negative drawdown
\* point and a negative mdd.
C4_Witness ==
    /\ Returned
    /\ \E k \in 1..Len(ret.run.dd["dca"]) : RLt(ret.run.dd["dca"][k].dd, R(0))
    /\ RLt(ret.run.metrics["dca"].mdd, R(0))
    /\ \E k \in 1..Len(Timeline("ls")) : ~AtRunningPeak(Timeline("ls"), k)

\* ------------------------------------------------------------------ C6
ZeroResult == [cashIn |-> 0, units |-> R(0), endValue |-> R(0)]

NoDataInRange == ClampRange(args.data, args.start, args.end) = <<>>

\* C6: when no series point is dated within [start, end], each simulator
\* returns an empty timeline and {cashIn: 0, units: 0, endValue: 0}, and
\* metricsFromTimeline of it is the record with no fields.
C6_NoDataIsEmptyResult ==
    (Returned /\ NoDataInRange) =>
        \A s \in Strategies :
            /\ Timeline(s) = <<>>
            /\ Result(s) = ZeroResult
            /\ DOMAIN ret.run.metrics[s] = {}

\* A window that lies inside a gap of the series, with a contribution
\* amount that is not zero.
C6_Witness ==
    /\ Returned
    /\ NoDataInRange
    /\ args.amount # 0
    /\ args.start <= args.end
    /\ \E i \in 1..Len(args.data) : args.data[i].t < args.start
    /\ \E i \in 1..Len(args.data) : args.data[i].t > args.end

\* ------------------------------------------------------------------ C7
\* C7: simulateTrendDCA buys on no day whose series position is below
\* maN - 1; when maN exceeds the series length every entry has units 0 and
\* cashPile equal to cashIn.
C7_NoBuyBeforeWindowFills ==
    Returned =>
        LET tl == Timeline("trend")
        IN  /\ \A k \in 1..Len(tl) :
                  PosOf(args.data, tl[k].t) < args.maN - 1
                      => tl[k].units = Before(tl, k, R(0), "units")
            /\ args.maN > Len(args.data) =>
                  \A k \in 1..Len(tl) :
                      tl[k].units = R(0) /\ tl[k].cashPile = tl[k].cashIn

\* Cash waits on a day before the window fills, although the price is above
\* the mean of the prices so far, and is spent once the window has filled.
C7_Witness ==
    /\ Returned
    /\ args.maN = 2
    /\ Len(Timeline("trend")) = 3
    /\ Timeline("trend")[1].cashPile > 0
    /\ Timeline("trend")[1].units = R(0)
    /\ PosOf(args.data, Timeline("trend")[1].t) = 0
    /\ RLt(R(0), Result("trend").units)

\* ------------------------------------------------------------------ C8
\* The highest price among the first k entries of tl.
RECURSIVE PeakPrice(_, _)
PeakPrice(tl, k) ==
    IF k = 1 THEN tl[1].p
    ELSE IF tl[k].p > PeakPrice(tl, k - 1) THEN tl[k].p ELSE PeakPrice(tl, k - 1)

\* The example of C8 at the prices of the model: 2 then 1, one contribution
\* of 1 on the first day, threshold 20%.
C8_Example ==
    /\ args.data = <<[t |-> ParseDate(0), p |-> 2], [t |-> ParseDate(1), p |-> 1]>>
    /\ args.start = ParseDate(0)
    /\ args.end = ParseDate(1)
    /\ args.amount = 1
    /\ args.frequency = "weekly"
    /\ args.dipPct = DipPctOf(20)

\* C8: on each in-window day of simulateDipBuy, with the day's contribution
\* added and the in-window peak updated, the whole cashPile is turned into
\* cashPile/price units and set to 0 if (peak - price)/peak >= dipPct and
\* cashPile > 0; on every other day units and cashPile stay.  In the example
\* the purchase is on the second day and keeps the value.
C8_DipDeployment ==
    Returned =>
        LET tl == Timeline("dip")
            sched == SeqToSet(ret.schedule)
        IN  /\ \A k \in 1..Len(tl) :
                  LET p == tl[k].p
                      pile == Before(tl, k, 0, "cashPile")
                                + (IF PosOf(args.data, tl[k].t) \in sched
                                   THEN args.amount ELSE 0)
                      peak == PeakPrice(tl, k)
                      deploy == /\ (peak - p) * args.dipPct[2] >= args.dipPct[1] * peak
                                /\ pile > 0
                  IN  IF deploy
                      THEN /\ tl[k].units
                                = RAdd(Before(tl, k, R(0), "units"), RNorm(pile, p))
                           /\ tl[k].cashPile = 0
                      ELSE /\ tl[k].units = Before(tl, k, R(0), "units")
                           /\ tl[k].cashPile = pile
            /\ C8_Example =>
                  /\ tl[1].units = R(0) /\ tl[1].cashPile = 1
                  /\ tl[2].units = R(1) /\ tl[2].cashPile = 0
                  /\ Result("dip").units = R(1)
                  /\ Result("dip").endValue = R(1)

\* The example has run: the pile of the first day is spent on the second.
C8_Witness ==
    /\ Returned
    /\ C8_Example
    /\ Result("dip").units = R(1)

\* ------------------------------------------------------------------ C5
StagesReturned == pc = "returned" /\ ret.kind = "stages"

\* C5 (as claimed): for start <= end, both dates as the page makes them
\* (midnights of days), the stages of buildStages are in ascending order, the
\* first starts at start, the last ends at end, and each later stage starts
\* one day after the stage before it ends.
C5_StagesTile ==
    (StagesReturned /\ args.start <= args.end) =>
        LET st == ret.stages
        IN  /\ Len(st) >= 1
            /\ st[1].start = args.start
            /\ st[Len(st)].end = args.end
            /\ \A k \in 1..(Len(st) - 1) :
                  /\ st[k].start < st[k + 1].start
                  /\ st[k + 1].start = st[k].end + TicksPerDay

\* ------------------------------------------------------------------ C9
Drawn == pc = "drawn" /\ out.kind = "refresh"

\* The arguments refresh reads off the page.
PageAmount == NumberOr(ui.amount, 0)
PageDipPct == DipPctOf(NumberOr(ui.dipPct, DefaultDipPercent))
PageMaDays == NumberOr(ui.maDays, DefaultMaDays)

\* The total return of a fresh run of strategy s on [from, to] alone.
FreshReturn(s, from, to) ==
    LET tl == IF s = "dca"
                 THEN SimulateDCA(raw, from, to, PageAmount, ui.frequency).timeline
              ELSE IF s = "ls"
                 THEN SimulateLumpSum(raw, from, to, PageAmount, ui.frequency).timeline
              ELSE IF s = "dip"
                 THEN SimulateDipBuy(raw, from, to, PageAmount, ui.frequency,
                                     PageDipPct).timeline
              ELSE SimulateTrendDCA(raw, from, to, PageAmount, ui.frequency,
                                    PageMaDays).timeline
    IN  IF tl = <<>> THEN R(0)
        ELSE IF tl[Len(tl)].cashIn > 0
             THEN RSub(RDiv(tl[Len(tl)].value, R(tl[Len(tl)].cashIn)), R(1))
             ELSE R(0)

\* C9: computeStageReturns gives one label and one return per strategy for
\* each stage of buildStages(start, end, granularity), in stage order, and
\* the return of a stage is that of a fresh run of the simulator on
\* [stage.start, stage.end] alone (0 when that timeline is empty).
C9_StageIsolation ==
    Drawn =>
        LET st == BuildStages(out.start, out.end, ui.stageGranularity, tz)
            sd == out.stageData
        IN  /\ Len(sd.labels) = Len(st)
            /\ \A s \in Strategies : Len(sd[s]) = Len(st)
            /\ \A k \in 1..Len(st) :
                  /\ sd.labels[k] = st[k].label
                  /\ \A s \in Strategies :
                        sd[s][k] = FreshReturn(s, st[k].start, st[k].end)

\* Two stages or more, the first with a DCA return that is neither 0 nor
\* the DCA return of the whole range.
C9_Witness ==
    /\ Drawn
    /\ Len(out.stageData.labels) >= 2
    /\ out.stageData["dca"][1] # R(0)
    /\ out.stageData["dca"][1] # out.metrics["dca"].rtn
    /\ out.stageData["dca"][2] # out.metrics["dca"].rtn

\* ------------------------------------------------------------------ C10
\* Both date inputs hold a date, and the start date is the later one.
TypedInverted ==
    /\ ui.startDate # <<>>
    /\ ui.endDate # <<>>
    /\ ui.startDate[1] > ui.endDate[1]

C11_DCAContributesAtScheduled ==
    Returned =>
        LET tl == Timeline("dca")
            sched == SeqToSet(ret.schedule)
        IN  \A k \in 1..Len(tl) :
                IF PosOf(args.data, tl[k].t) \in sched
                THEN /\ tl[k].cashIn = Before(tl, k, 0, "cashIn") + args.amount
                     /\ tl[k].units = RAdd(Before(tl, k, R(0), "units"),
                                           RNorm(args.amount, tl[k].p))
                ELSE /\ tl[k].cashIn = Before(tl, k, 0, "cashIn")
                     /\ tl[k].units = Before(tl, k, R(0), "units")

\* ------------------------------------------------------------------ C12
\* C12 (as claimed): on every day of one run the cashIn of the
\* simulateDipBuy timeline and of the simulateTrendDCA timeline equals the
\* cashIn of the simulateDCA timeline, and so do the three final cashIn.
C12_SameCashAccumulation ==
    Returned =>
        /\ \A s \in {"dip", "trend"} :
              /\ Len(Timeline(s)) = Len(Timeline("dca"))
              /\ \A k \in 1..Len(Timeline(s)) :
                    Timeline(s)[k].cashIn = Timeline("dca")[k].cashIn
        /\ Result("dip").cashIn = Result("dca").cashIn
        /\ Result("trend").cashIn = Result("dca").cashIn

\* ------------------------------------------------------------------ C13
\* The series points dated within the window of the call.
InWindow == {d \in SeqToSet(args.data) : d.t >= args.start /\ d.t <= args.end}

\* C13: each simulator's timeline has exactly one entry for each series
\* point dated within [start, end], in ascending date order, and none for
\* any other day; the four timelines have the length and the dates of
\* clampRange(series, start, end).
C13_TimelineCoversWindow ==
    Returned =>
        \A s \in Strategies :
            LET tl == Timeline(s)
                cl == ClampRange(args.data, args.start, args.end)
            IN  /\ Len(tl) = Cardinality(InWindow)
                /\ {[t |-> tl[k].t, p |-> tl[k].p] : k \in 1..Len(tl)} = InWindow
                /\ \A k \in 1..(Len(tl) - 1) : tl[k].t < tl[k + 1].t
                /\ Len(tl) = Len(cl)
                /\ \A k \in 1..Len(tl) : tl[k].t = cl[k].t

\* A window that leaves out a series point before it and one after it and
\* still holds a point, with money invested.
C13_Witness ==
    /\ Returned
    /\ Len(Timeline("ls")) = 1
    /\ Len(Timeline("dca")) = 1
    /\ Len(args.data) = 3
    /\ args.data[1].t < args.start
    /\ args.data[3].t > args.end
    /\ Result("ls").cashIn > 0

\* ------------------------------------------------------------------ C14
\* The positions of the call's series dated at or after its start.
FromStart == {i \in 0..(Len(args.data) - 1) : At(args.data, i).t >= args.start}

\* iStart: the first of them.
FirstFromStart == CHOOSE i \in FromStart : \A j \in FromStart : i <= j

\* The step of the call's frequency, as 1, 7 or 30 days of ticks.
StepOf ==
    (CASE args.frequency = "daily" -> 1
       [] args.frequency = "weekly" -> 7
       [] args.frequency = "monthly" -> 30) * TicksPerDay

\* endDate = min(end, last series date).
EndDateOf ==
    LET last == args.data[Len(args.data)].t
    IN  IF args.end < last THEN args.end ELSE last

\* Cursor tick k.
Tick(k) == At(args.data, FirstFromStart).t + k * StepOf

\* The positions from iStart on dated at or after tick k, no later than endDate.
Candidates(k) ==
    {j \in FirstFromStart..(Len(args.data) - 1) : At(args.data, j).t >= Tick(k)}

\* What tick k emits: the first candidate, if it is dated within endDate.
Emitted(k) ==
    IF Candidates(k) = {} THEN <<>>
    ELSE LET j == CHOOSE j \in Candidates(k) : \A h \in Candidates(k) : j <= h
         IN  IF At(args.data, j).t <= EndDateOf THEN <<j>> ELSE <<>>

\* The emissions of ticks k, k + 1, ... up to the last tick within endDate.
RECURSIVE EmittedFrom(_)
EmittedFrom(k) ==
    IF Tick(k) <= EndDateOf THEN Emitted(k) \o EmittedFrom(k + 1) ELSE <<>>

\* The series has a point on every day from its first to its last.
NoMissingDays ==
    \A i \in 1..(Len(args.data) - 1) : args.data[i + 1].t = args.data[i].t + TicksPerDay

\* C14: buildScheduleIdx returns the empty schedule when no position is
\* dated at or after start; otherwise it emits, for each cursor tick
\* date(iStart) + k*step that is <= endDate, in tick order, the first
\* position j >= iStart with date(j) >= tick, provided date(j) <= endDate,
\* and nothing else.  On a series with no missing days that is iStart,
\* iStart + step, iStart + 2*step, ... up to endDate.
C14_ScheduleConstruction ==
    Returned =>
        /\ FromStart = {} => ret.schedule = <<>>
        /\ FromStart # {} =>
              /\ ret.schedule = EmittedFrom(0)
              /\ NoMissingDays =>
                    /\ \A n \in 1..Len(ret.schedule) :
                          /\ ret.schedule[n]
                                = FirstFromStart + (n - 1) * (StepOf \div TicksPerDay)
                          /\ At(args.data, ret.schedule[n]).t <= EndDateOf
                    /\ At(args.data, FirstFromStart).t <= EndDateOf =>
                          /\ Len(ret.schedule) >= 1
                          /\ At(args.data, ret.schedule[Len(ret.schedule)]).t + StepOf
                                > EndDateOf

\* A monthly schedule over a gap: the second tick finds no point of its own
\* day and takes the next one; and a window starting between two points.
C14_Witness ==
    /\ Returned
    /\ args.frequency = "monthly"
    /\ ret.schedule = <<1, 2>>
    /\ At(args.data, 1).t > args.start
    /\ At(args.data, 2).t > Tick(1)

\* ------------------------------------------------------------------ C15
TrendReturned == pc = "returned" /\ ret.kind = "trend"

\* The sum of the prices at positions lo..hi of the whole series.
RECURSIVE PriceSum(_, _, _)
PriceSum(data, lo, hi) ==
    IF lo > hi THEN 0 ELSE At(data, hi).p + PriceSum(data, lo, hi - 1)

\* Entry k of the trend timeline bought units.
TrendBought(k) ==
    RLt(Before(ret.sim.timeline, k, R(0), "units"), ret.sim.timeline[k].units)

\* C15: on each in-window day of simulateTrendDCA, at series position i,
\* with the day's scheduled contribution added, the whole cashPile is turned
\* into units at the day's price and set to 0 if and only if i >= maN - 1,
\* the price is strictly above the mean of the prices at positions
\* i-maN+1..i of the whole series, and cashPile > 0; the test is made anew
\* every day, also after an earlier purchase.
C15_TrendTriggerEveryDay ==
    TrendReturned =>
        LET tl == ret.sim.timeline
            sched == SeqToSet(ret.schedule)
            n == args.maN
        IN  \A k \in 1..Len(tl) :
                LET i == PosOf(args.data, tl[k].t)
                    p == tl[k].p
                    pile == Before(tl, k, 0, "cashPile")
                              + (IF i \in sched THEN args.amount ELSE 0)
                    deploy == /\ i >= n - 1
                              /\ p * n > PriceSum(args.data, i - n + 1, i)
                              /\ pile > 0
                IN  IF deploy
                    THEN /\ tl[k].units
                              = RAdd(Before(tl, k, R(0), "units"), RNorm(pile, p))
                         /\ tl[k].cashPile = 0
                    ELSE /\ tl[k].units = Before(tl, k, R(0), "units")
                         /\ tl[k].cashPile = pile

\* Two purchases in one run: the pile is spent on the second day, a later
\* contribution refills it and is spent on the third day.
C15_Witness ==
    /\ TrendReturned
    /\ Len(ret.sim.timeline) = 3
    /\ ~TrendBought(1)
    /\ TrendBought(2)
    /\ TrendBought(3)
    /\ ret.sim.timeline[3].cashPile = 0

\* ------------------------------------------------------------------ C16
\* The adjacent pairs of tl, by the index of the earlier entry, whose earlier
\* value is positive.
PositivePairs(tl) == {i \in 1..(Len(tl) - 1) : RLt(R(0), tl[i].value)}

\* C16 (as claimed): the daily-return sample of metricsFromTimeline has one
\* element for each adjacent pair of entries whose earlier value is > 0 and
\* none for a pair whose earlier value is <= 0: its size is the number of
\* pairs with a positive earlier value.
C16_SampleOfPositivePairs ==
    Returned =>
        \A s \in Strategies :
            Timeline(s) # <<>> =>
                Len(ret.run.metrics[s].rets) = Cardinality(PositivePairs(Timeline(s)))

\* C16 (amended): the sample has one element for each adjacent pair of
\* entries, in order: value_i/value_{i-1} - 1 when the earlier value is > 0
\* and 0 when it is <= 0; its size is the number of adjacent pairs.
C16_SampleOfAllPairs ==
    Returned =>
        \A s \in Strategies :
            LET tl == Timeline(s)
                rets == ret.run.metrics[s].rets
            IN  tl # <<>> =>
                    /\ Len(rets) = Len(tl) - 1
                    /\ \A i \in 1..(Len(tl) - 1) :
                          rets[i] = IF i \in PositivePairs(tl)
                                    THEN RNorm(tl[i + 1].value[1] * tl[i].value[2]
                                                 - tl[i].value[1] * tl[i + 1].value[2],
                                               tl[i].value[1] * tl[i + 1].value[2])
                                    ELSE R(0)

\* A run that never invests: every value is 0 and the sample is two zeros.
C16_Witness ==
    /\ Returned
    /\ args.amount = 0
    /\ Len(Timeline("dca")) = 3
    /\ PositivePairs(Timeline("dca")) = {}
    /\ ret.run.metrics["dca"].rets = <<R(0), R(0)>>

\* ------------------------------------------------------------------ C17
\* The cash spent on purchases in the first k entries of tl: the units each
\* entry added, at that entry's price.
RECURSIVE Spent(_, _)
Spent(tl, k) ==
    IF k = 0 THEN R(0)
    ELSE RAdd(Spent(tl, k - 1),
              RMul(RSub(tl[k].units, Before(tl, k, R(0), "units")), R(tl[k].p)))

\* C17: with amount >= 0, at every entry of the simulateDipBuy and
\* simulateTrendDCA timelines 0 <= cashPile <= cashIn and cashIn is cashPile
\* plus the cash spent on purchases so far; while units are 0 the entry has
\* cashPile = cashIn and value = cashIn; and cash never spent by the end of
\* the window counts at face value in endValue.
C17_CashConservation ==
    (Returned /\ args.amount >= 0) =>
        \A s \in {"dip", "trend"} :
            LET tl == Timeline(s)
            IN  /\ \A k \in 1..Len(tl) :
                      /\ 0 <= tl[k].cashPile
                      /\ tl[k].cashPile <= tl[k].cashIn
                      /\ R(tl[k].cashIn) = RAdd(R(tl[k].cashPile), Spent(tl, k))
                      /\ tl[k].value
                            = RAdd(RMul(tl[k].units, R(tl[k].p)), R(tl[k].cashPile))
                      /\ tl[k].units = R(0) =>
                            /\ tl[k].cashPile = tl[k].cashIn
                            /\ tl[k].value = R(tl[k].cashIn)
                /\ tl # <<>> =>
                      /\ Result(s).cashIn = tl[Len(tl)].cashIn
                      /\ Result(s).endValue
                            = RAdd(RMul(Result(s).units, R(tl[Len(tl)].p)),
                                   R(tl[Len(tl)].cashPile))

\* A dip run that bought once and ends with cash waiting beside its units,
\* and a trend run of the same call that never bought and ends with all of
\* its cash.
C17_Witness ==
    /\ Returned
    /\ args.amount > 0
    /\ Len(Timeline("dip")) = 3
    /\ RLt(R(0), Result("dip").units)
    /\ Timeline("dip")[3].cashPile > 0
    /\ Result("trend").units = R(0)
    /\ Timeline("trend")[3].cashPile = Result("trend").cashIn
    /\ Result("trend").endValue = R(Result("trend").cashIn)
    /\ Result("trend").cashIn > 0

\* ------------------------------------------------------------------ C18
\* The number of days from start to end, both counted, 0 for an empty range.
RangeDays ==
    IF args.start <= args.end THEN (args.end - args.start) \div TicksPerDay + 1 ELSE 0

\* An iteration of either loop moves its cursor strictly forward.
CursorAdvances ==
    (pc = "loop" /\ pc' = "loop" /\ ret'.iters = ret.iters + 1)
        => ret'.cursor > ret.cursor

\* C18: the cursor loop of buildScheduleIdx and the loop of buildStages
\* terminate for every series, range, frequency and granularity: each
\* iteration moves the cursor (the next stage start) strictly forward, and
\* the number of iterations is at most the number of days of the range.
C18_LoopsTerminate ==
    /\ <>(pc = "done")
    /\ [](pc \in {"loop", "done"} => ret.iters <= RangeDays)
    /\ [][CursorAdvances]_vars

\* buildScheduleIdx has returned after a pass for every day of a range of
\* more than a month, over a series with gaps.
C18_Witness ==
    /\ pc = "done"
    /\ ret.kind = "scheduleLoop"
    /\ ret.iters = RangeDays
    /\ ret.iters > 30
    /\ Len(args.data) = MaxLen

====
